---------------------------- MODULE Spec2Model ----------------------------
(***************************************************************************)
(* A model of the Ellis Law police report parser (src/app.py).             *)
(*                                                                         *)
(* A text is a sequence of one-character strings.  The regular expressions *)
(* of the source are kept as syntax trees and matched by a backtracking    *)
(* matcher with Python's priorities (greedy repetition, leftmost match,    *)
(* non-overlapping findall/sub).  The PDF libraries are modelled by the    *)
(* outcomes they can produce for a file: the text of a page, None, or an   *)
(* exception.                                                              *)
(***************************************************************************)
EXTENDS Integers, Sequences, FiniteSets, TLC

VARIABLES
    files,         \* the uploaded batch (file_uploader's result)
    fitz,          \* TRUE iff "import fitz" succeeded (module level)
    pc,            \* position of the script: "start", "loop", "done"
    i,             \* number of files the batch loop has processed
    text,          \* text of the file processed last (read_pdf_text's result)
    occupants,     \* parse_document's local of the same name, last call
    charged_hint,  \* parse_document's local: <<>> when no hint was found
    commercial,    \* parse_document's local
    fatal,         \* parse_document's local
    fields,        \* parse_document's locals case_no, dept and date, last call
    rows,          \* the rows parse_document returned last
    all_rows,      \* the accumulated rows of the batch
    metrics        \* the three metrics shown after the loop

vars == <<files, fitz, pc, i, text, occupants, charged_hint, commercial,
          fatal, fields, rows, all_rows, metrics>>

-----------------------------------------------------------------------------
(* Characters and Python's str methods *)

UpperLetters == <<"A","B","C","D","E","F","G","H","I","J","K","L","M",
                  "N","O","P","Q","R","S","T","U","V","W","X","Y","Z">>

LowerLetters == <<"a","b","c","d","e","f","g","h","i","j","k","l","m",
                  "n","o","p","q","r","s","t","u","v","w","x","y","z">>

Range(s) == {s[k] : k \in DOMAIN s}

AZ == Range(UpperLetters)

az == Range(LowerLetters)

Digits == {"0","1","2","3","4","5","6","7","8","9"}

\* \s of the re module, within the model's alphabet
Space == {" ", "\n", "\t"}

\* \w of the re module, within the model's alphabet
WordChars == AZ \cup az \cup Digits \cup {"_"}

\* the line boundaries str.splitlines knows, within the model's alphabet
LineBreaks == {"\n"}

UpperChar(c) ==
    IF c \in az THEN UpperLetters[CHOOSE k \in 1..26 : LowerLetters[k] = c]
    ELSE c

LowerChar(c) ==
    IF c \in AZ THEN LowerLetters[CHOOSE k \in 1..26 : UpperLetters[k] = c]
    ELSE c

\* str.upper
Upper(s) == [k \in DOMAIN s |-> UpperChar(s[k])]

\* s[a:b] of Python for 0 <= a, in 1-based inclusive positions a+1 .. b
Slice(s, from, to) ==
    IF from > to \/ from > Len(s) THEN <<>>
    ELSE SubSeq(s, from, IF to > Len(s) THEN Len(s) ELSE to)

\* str.find: the 1-based position of the first occurrence, 0 when absent
Find(s, sub) ==
    LET hits == {k \in 1..(Len(s) - Len(sub) + 1) :
                    sub = <<>> \/ (s[k] = sub[1] /\ SubSeq(s, k, k + Len(sub) - 1) = sub)}
    IN  IF hits = {} THEN 0 ELSE CHOOSE k \in hits : \A m \in hits : k <= m

\* the "in" operator on strings
Contains(s, sub) ==
    \E k \in 1..(Len(s) - Len(sub) + 1) :
        sub = <<>> \/ (s[k] = sub[1] /\ SubSeq(s, k, k + Len(sub) - 1) = sub)

\* str.strip(chars)
StripChars(s, chars) ==
    LET keep == {k \in DOMAIN s : s[k] \notin chars}
    IN  IF keep = {} THEN <<>>
        ELSE LET lo == CHOOSE k \in keep : \A m \in keep : k <= m
                 hi == CHOOSE k \in keep : \A m \in keep : k >= m
             IN  SubSeq(s, lo, hi)

\* str.strip()
Strip(s) == StripChars(s, Space)

\* the pieces of s between the characters of seps, empty pieces included
RECURSIVE Pieces(_, _)
Pieces(s, seps) ==
    LET cut == {k \in DOMAIN s : s[k] \in seps}
    IN  IF cut = {} THEN <<s>>
        ELSE LET c == CHOOSE k \in cut : \A m \in cut : k <= m
             IN  <<SubSeq(s, 1, c - 1)>> \o Pieces(SubSeq(s, c + 1, Len(s)), seps)

\* str.split(): the maximal runs of non-whitespace
Split(s) == SelectSeq(Pieces(s, Space), LAMBDA p : p # <<>>)

\* str.splitlines(): no empty last line after a final line break
SplitLines(s) ==
    LET ps == Pieces(s, LineBreaks)
    IN  IF ps[Len(ps)] = <<>> THEN SubSeq(ps, 1, Len(ps) - 1) ELSE ps

\* sep.join(parts)
RECURSIVE Join(_, _)
Join(sep, parts) ==
    IF parts = <<>> THEN <<>>
    ELSE IF Len(parts) = 1 THEN parts[1]
    ELSE parts[1] \o sep \o Join(sep, Tail(parts))

-----------------------------------------------------------------------------
(* The re module: syntax trees and a backtracking matcher *)

\* one character of set s
Chr(s) == [t |-> "set", s |-> s, str |-> <<>>, rs |-> <<>>, min |-> 0, max |-> 0]

\* a literal string
Lit(str) == [t |-> "lit", s |-> {}, str |-> str, rs |-> <<>>, min |-> 0, max |-> 0]

\* a literal string under re.IGNORECASE
LitI(str) == [t |-> "liti", s |-> {}, str |-> str, rs |-> <<>>, min |-> 0, max |-> 0]

\* r1 r2 ... rn
Cat(rs) == [t |-> "cat", s |-> {}, str |-> <<>>, rs |-> rs, min |-> 0, max |-> 0]

\* [s]{min,max}, greedy, of a character set; max = -1 is no upper limit
Rep(s, min, max) == [t |-> "rep", s |-> s, str |-> <<>>, rs |-> <<>>, min |-> min, max |-> max]

\* ( r ): the pattern's capture group
Grp(r) == [t |-> "grp", s |-> {}, str |-> <<>>, rs |-> <<r>>, min |-> 0, max |-> 0]

\* \b
WordB == [t |-> "wordb", s |-> {}, str |-> <<>>, rs |-> <<>>, min |-> 0, max |-> 0]

\* ^
Bol == [t |-> "bol", s |-> {}, str |-> <<>>, rs |-> <<>>, min |-> 0, max |-> 0]

\* $
Eol == [t |-> "eol", s |-> {}, str |-> <<>>, rs |-> <<>>, min |-> 0, max |-> 0]

\* a character set under re.IGNORECASE
IgnoreCase(s) == s \cup {UpperChar(c) : c \in s} \cup {LowerChar(c) : c \in s}

IsWordAt(s, k) == k >= 1 /\ k <= Len(s) /\ s[k] \in WordChars

NoGroup == <<0, 0>>

\* the number of characters of set cs that s has in a row from position p
RunLength(s, p, cs) ==
    LET stops == {k \in p..Len(s) : s[k] \notin cs}
    IN  IF stops = {} THEN Len(s) + 1 - p
        ELSE (CHOOSE k \in stops : \A m \in stops : k <= m) - p

\* The ways re matches s from position p, in the order backtracking tries them:
\* each is [e |-> the position after the match, g |-> the group's <<start, end>>]
RECURSIVE Match(_, _, _), MatchCat(_, _, _, _), Continue(_, _, _, _, _, _)
Match(re, s, p) ==
    CASE re.t = "set" ->
            IF p <= Len(s) /\ s[p] \in re.s THEN <<[e |-> p + 1, g |-> NoGroup]>> ELSE <<>>
      [] re.t = "lit" ->
            IF Slice(s, p, p + Len(re.str) - 1) = re.str
            THEN <<[e |-> p + Len(re.str), g |-> NoGroup]>> ELSE <<>>
      [] re.t = "liti" ->
            IF Upper(Slice(s, p, p + Len(re.str) - 1)) = Upper(re.str)
            THEN <<[e |-> p + Len(re.str), g |-> NoGroup]>> ELSE <<>>
      [] re.t = "cat" -> MatchCat(re.rs, 1, s, p)
      [] re.t = "rep" ->
            \* the longest run first, then one character less, down to min
            LET run == RunLength(s, p, re.s)
                most == IF re.max # -1 /\ run > re.max THEN re.max ELSE run
            IN  IF most < re.min THEN <<>>
                ELSE [k \in 1..(most - re.min + 1) |-> [e |-> p + most + 1 - k, g |-> NoGroup]]
      [] re.t = "grp" ->
            LET inner == Match(re.rs[1], s, p)
            IN  [k \in DOMAIN inner |-> [e |-> inner[k].e, g |-> <<p, inner[k].e>>]]
      [] re.t = "wordb" ->
            IF IsWordAt(s, p - 1) # IsWordAt(s, p) THEN <<[e |-> p, g |-> NoGroup]>> ELSE <<>>
      [] re.t = "bol" ->
            IF p = 1 THEN <<[e |-> p, g |-> NoGroup]>> ELSE <<>>
      [] re.t = "eol" ->
            IF p = Len(s) + 1 \/ (p = Len(s) /\ s[p] = "\n")
            THEN <<[e |-> p, g |-> NoGroup]>> ELSE <<>>

\* rs[n..] from p
MatchCat(rs, n, s, p) ==
    IF n > Len(rs) THEN <<[e |-> p, g |-> NoGroup]>>
    ELSE LET first == Match(rs[n], s, p)
         IN  IF first = <<>> THEN <<>> ELSE Continue(first, 1, Len(first), rs, n, s)

\* for each way first[lo..hi] of matching rs[n], in order, the ways of matching
\* rs[n+1..] after it (the range is halved to keep the evaluation shallow)
Continue(first, lo, hi, rs, n, s) ==
    IF lo = hi
    THEN LET rest == MatchCat(rs, n + 1, s, first[lo].e)
         IN  [m \in DOMAIN rest |->
                 [e |-> rest[m].e,
                  g |-> IF rest[m].g # NoGroup THEN rest[m].g ELSE first[lo].g]]
    ELSE LET mid == (lo + hi) \div 2
         IN  Continue(first, lo, mid, rs, n, s) \o Continue(first, mid + 1, hi, rs, n, s)

NoMatch == [found |-> FALSE, start |-> 0, end |-> 0, g |-> NoGroup]

\* pattern.search(s, from): the leftmost match at or after position from,
\* and of the matches there the one backtracking finds first
SearchFrom(re, s, from) ==
    LET starts == {p \in from..(Len(s) + 1) : Match(re, s, p) # <<>>}
    IN  IF starts = {} THEN NoMatch
        ELSE LET p == CHOOSE k \in starts : \A m \in starts : k <= m
                 first == Match(re, s, p)[1]
             IN  [found |-> TRUE, start |-> p, end |-> first.e, g |-> first.g]

\* re.search
Search(re, s) == SearchFrom(re, s, 1)

\* re.match: a match at the start of s only
MatchAtStart(re, s) == Match(re, s, 1) # <<>>

\* m.group(1)
Group1(s, m) == SubSeq(s, m.g[1], m.g[2] - 1)

\* re.findall for a pattern with one group: the group of every match, the
\* matches non-overlapping, each search starting where the last match ended
RECURSIVE FindAllFrom(_, _, _)
FindAllFrom(re, s, from) ==
    LET m == SearchFrom(re, s, from)
    IN  IF ~m.found THEN <<>>
        ELSE <<Group1(s, m)>>
             \o FindAllFrom(re, s, IF m.end > m.start THEN m.end ELSE m.end + 1)

FindAll(re, s) == FindAllFrom(re, s, 1)

\* re.sub(re, repl, s) for a pattern that matches no empty string
RECURSIVE SubFrom(_, _, _, _)
SubFrom(re, repl, s, from) ==
    LET m == SearchFrom(re, s, from)
    IN  IF ~m.found THEN Slice(s, from, Len(s))
        ELSE Slice(s, from, m.start - 1) \o repl \o SubFrom(re, repl, s, m.end)

Sub(re, repl, s) == SubFrom(re, repl, s, 1)


-----------------------------------------------------------------------------
(* The patterns and constants of src/app.py *)

NL == <<"\n">>

SP == <<" ">>

\* \s*
WS0 == Rep(Space, 0, -1)

\* \n?
OptNL == Rep({"\n"}, 0, 1)

\* \d{2}
TwoDigits == Rep(Digits, 2, 2)

\* r"\b1\s*Case\s*Number\s*\n?([A-Z0-9\-]+)", re.IGNORECASE
CASE_RE ==
    Cat(<<WordB, Chr({"1"}), WS0, LitI(<<"C","a","s","e">>), WS0, LitI(<<"N","u","m","b","e","r">>), WS0, OptNL,
          Grp(Rep(IgnoreCase(AZ \cup Digits \cup {"-"}), 1, -1))>>)

\* r"2\s*Police Dept of\s*\n?([A-Z0-9 \-./&]+)", re.IGNORECASE
DEPT_RE ==
    Cat(<<Chr({"2"}), WS0, LitI(<<"P","o","l","i","c","e"," ","D","e","p","t"," ","o","f">>), WS0, OptNL,
          Grp(Rep(IgnoreCase(AZ \cup Digits \cup {" ", "-", ".", "/", "&"}), 1, -1))>>)

\* r"4\s*Date of Crash\s*\n?(\d{2}/\d{2}/\d{2})", re.IGNORECASE
DATE_RE ==
    Cat(<<Chr({"4"}), WS0, LitI(<<"D","a","t","e"," ","o","f"," ","C","r","a","s","h">>), WS0, OptNL,
          Grp(Cat(<<TwoDigits, Chr({"/"}), TwoDigits, Chr({"/"}), TwoDigits>>))>>)

\* r"^[0-9\- ]+$"
NUMERIC_LINE_RE == Cat(<<Bol, Rep(Digits \cup {"-", " "}, 1, -1), Eol>>)

\* r"[A-Za-z]{2,}\s+[A-Za-z]"
TWO_WORDS_RE ==
    Cat(<<Rep(AZ \cup az, 2, -1), Rep(Space, 1, -1), Chr(AZ \cup az)>>)

\* r"\s*-\s*"
HYPHEN_RE == Cat(<<WS0, Chr({"-"}), WS0>>)

\* r"\s{2,}"
SPACES_RE == Rep(Space, 2, -1)

\* r"\b\d{2,}\b"
NUMBER_RE == Cat(<<WordB, Rep(Digits, 2, -1), WordB>>)

\* r"\n([A-Z][A-Z \-']{4,60})\n"
CAPS_RE ==
    Cat(<<Chr({"\n"}),
          Grp(Cat(<<Chr(AZ), Rep(AZ \cup {" ", "-", "'"}, 4, 60)>>)),
          Chr({"\n"})>>)

\* r"\b8\s*Total\s*Killed\s*\n?([1-9])"
FATAL_RE ==
    Cat(<<WordB, Chr({"8"}), WS0, Lit(<<"T","o","t","a","l">>), WS0, Lit(<<"K","i","l","l","e","d">>), WS0, OptNL,
          Grp(Chr(Digits \ {"0"}))>>)

OCC_ANCHOR == <<"N","a","m","e","s"," ","&"," ","A","d","d","r","e","s","s","e","s"," ","o","f"," ","O","c","c","u","p","a","n","t","s">>

OCC_HEADER == <<"N","a","m","e","s"," ","&"," ","A","d","d","r","e","s","s","e","s">>

DECEASED == <<"I","f"," ","D","e","c","e","a","s","e","d">>

CHARGE_ANCHOR == <<"1","3","6"," ","C","h","a","r","g","e">>

TOTAL_KILLED == <<"T","o","t","a","l"," ","K","i","l","l","e","d">>

PLACEHOLDER == <<"(","n","o"," ","o","c","c","u","p","a","n","t","s"," ","p","a","r","s","e","d",")">>

\* keys of flag_commercial
keys ==
    <<<<"U","S","D","O","T">>, <<"T","R","U","C","K">>, <<"C","A","R","R","I","E","R">>, <<"G","V","W","R">>, <<"P","E","N","S","K","E">>, <<"F","R","E","I","G","H","T">>,
      <<"M","C","/","M","X">>, <<"W","E","I","G","H","T"," ",">","="," ","2","6",",","0","0","1">>>>

\* block = text[anchor:anchor+8000]
BlockWindow == 8000

\* dedup[:30]
MaxOccupants == 30

\* text[max(0, idx-600): idx+1500]
HintBefore == 600

HintAfter == 1500

\* 2 <= len(name.split()) <= 5
MinWords == 2

MaxWords == 5

-----------------------------------------------------------------------------
(* parse_occupants *)

\* lines = [l.strip() for l in block.splitlines() if l.strip()]
BlockLines(block) ==
    LET ls == SplitLines(block)
        stripped == [k \in DOMAIN ls |-> Strip(ls[k])]
    IN  SelectSeq(stripped, LAMBDA l : l # <<>>)

\* the two "continue" tests of the loop
Skipped(l) ==
    \/ Contains(l, OCC_HEADER)
    \/ Contains(l, DECEASED)
    \/ MatchAtStart(NUMERIC_LINE_RE, l)

\* the test of the loop's last "if"
Kept(l) == ~Skipped(l) /\ Search(TWO_WORDS_RE, l).found

\* clean = re.sub(r"\s*-\s*", " ", l)
ReplaceHyphens(l) == Sub(HYPHEN_RE, SP, l)

\* clean = re.sub(r"\s{2,}", " ", clean).strip(" -")
Clean(l) == StripChars(Sub(SPACES_RE, SP, ReplaceHyphens(l)), {" ", "-"})

\* name_only = clean if not m else clean[:m.start()].strip()
NameOnly(clean) ==
    LET m == Search(NUMBER_RE, clean)
    IN  IF ~m.found THEN clean ELSE Strip(Slice(clean, 1, m.start - 1))

\* if 2 <= len(name_only.split()) <= 5
Accepted(name_only) ==
    MinWords <= Len(Split(name_only)) /\ Len(Split(name_only)) <= MaxWords

\* the loop over lines: results, in the order of the lines
RECURSIVE Candidates(_)
Candidates(lines) ==
    IF lines = <<>> THEN <<>>
    ELSE LET l == Head(lines)
             name_only == NameOnly(Clean(l))
         IN  (IF Kept(l) /\ Accepted(name_only) THEN <<[name |-> name_only]>> ELSE <<>>)
             \o Candidates(Tail(lines))

\* the dedup loop: the first of every name, in order
RECURSIVE Dedup(_, _)
Dedup(results, seen) ==
    IF results = <<>> THEN <<>>
    ELSE LET r == Head(results)
         IN  IF r.name \notin seen
             THEN <<r>> \o Dedup(Tail(results), seen \cup {r.name})
             ELSE Dedup(Tail(results), seen)

\* Cap without the slice
Cap_Uncapped(dedup) == dedup

\* return dedup[:30]
Cap(dedup) == Slice(dedup, 1, MaxOccupants)

parse_occupants(t) ==
    LET anchor == Find(t, OCC_ANCHOR)
    IN  IF anchor = 0 THEN <<>>
        ELSE LET block == Slice(t, anchor, anchor + BlockWindow - 1)
             IN  Cap(Dedup(Candidates(BlockLines(block)), {}))

-----------------------------------------------------------------------------
(* find_charged_driver_hint, flag_commercial, flag_fatal *)

NoHint == [found |-> FALSE, cand |-> <<>>]

\* the loop over caps: the first candidate of 2 to 5 words, whitespace-normalized
RECURSIVE FirstQualifying(_)
FirstQualifying(caps) ==
    IF caps = <<>> THEN NoHint
    ELSE LET cand == Join(SP, Split(Head(caps)))
         IN  IF MinWords <= Len(Split(cand)) /\ Len(Split(cand)) <= MaxWords
             THEN [found |-> TRUE, cand |-> cand]
             ELSE FirstQualifying(Tail(caps))

\* snippet = text[max(0, idx-600): idx+1500]
Snippet(t) ==
    LET idx == Find(t, CHARGE_ANCHOR)
        lo == IF idx - HintBefore < 1 THEN 1 ELSE idx - HintBefore
    IN  Slice(t, lo, idx + HintAfter - 1)

\* caps = re.findall(r"\n([A-Z][A-Z \-']{4,60})\n", snippet)
Caps(snippet) == FindAll(CAPS_RE, snippet)

find_charged_driver_hint(t) ==
    IF ~Contains(t, CHARGE_ANCHOR) THEN NoHint
    ELSE FirstQualifying(Caps(Snippet(t)))

\* flag_commercial without text.upper()
flag_commercial_CaseSensitive(t) == \E k \in DOMAIN keys : Contains(t, keys[k])

flag_commercial(t) ==
    LET T == Upper(t)
    IN  \E k \in DOMAIN keys : Contains(T, keys[k])

\* flag_fatal without the test for "Total Killed"
flag_fatal_PatternOnly(t) == Search(FATAL_RE, t).found

flag_fatal(t) == Contains(t, TOTAL_KILLED) /\ Search(FATAL_RE, t).found

-----------------------------------------------------------------------------
(* parse_document *)

YesNo(b) == IF b THEN "Yes" ELSE "No"

\* case_no.group(1) if case_no else ""
CaseNumber(t) ==
    LET m == Search(CASE_RE, t) IN IF m.found THEN Group1(t, m) ELSE <<>>

\* dept.group(1).strip() if dept else ""
PoliceDept(t) ==
    LET m == Search(DEPT_RE, t) IN IF m.found THEN Strip(Group1(t, m)) ELSE <<>>

\* date.group(1) if date else ""
DateOfCrash(t) ==
    LET m == Search(DATE_RE, t) IN IF m.found THEN Group1(t, m) ELSE <<>>

\* charged_hint = (find_charged_driver_hint(text) or "").upper()
ChargedHint(t) ==
    LET h == find_charged_driver_hint(t)
    IN  IF h.found THEN Upper(h.cand) ELSE <<>>

\* Naf without name.upper()
Naf_CaseSensitive(hint, name) ==
    IF hint # <<>> /\ Contains(name, hint) THEN "No" ELSE "Yes"

\* naf = "No" if charged_hint and charged_hint in name.upper() else "Yes"
Naf(hint, name) ==
    IF hint # <<>> /\ Contains(Upper(name), hint) THEN "No" ELSE "Yes"

\* case_no, dept and date, as the rows show them
Fields(t) ==
    [case_no |-> CaseNumber(t), dept |-> PoliceDept(t), date |-> DateOfCrash(t)]

Row(f, name, naf, comm, fat) ==
    [CaseNumber |-> f.case_no,
     PoliceDept |-> f.dept,
     DateOfCrash |-> f.date,
     Name |-> name,
     NotAtFault |-> naf,
     CommercialVehicleFlag |-> YesNo(comm),
     FatalFlag |-> YesNo(fat)]

\* the loop "for o in occupants"
OccupantRows(f, occ, hint, comm, fat) ==
    [k \in DOMAIN occ |-> Row(f, occ[k].name, Naf(hint, occ[k].name), comm, fat)]

\* the branch "if not rows"
PlaceholderRows(f, comm, fat) == <<Row(f, PLACEHOLDER, "", comm, fat)>>

\* AssembleRows without the branch "if not rows"
AssembleRows_NoPlaceholder(f, occ, hint, comm, fat) ==
    OccupantRows(f, occ, hint, comm, fat)

\* the rows parse_document returns, from its locals
AssembleRows(f, occ, hint, comm, fat) ==
    LET rs == OccupantRows(f, occ, hint, comm, fat)
    IN  IF rs = <<>> THEN PlaceholderRows(f, comm, fat) ELSE rs

parse_document(t) ==
    AssembleRows(Fields(t), parse_occupants(t), ChargedHint(t),
                 flag_commercial(t), flag_fatal(t))

-----------------------------------------------------------------------------
(* read_pdf_text.  A file is what the two libraries do with it:            *)
(*   popen, sopen  whether pdfplumber.open / fitz.open return              *)
(*   ppages        per page what p.extract_text() does                     *)
(*   spages        per page what page.get_text("text") does               *)
(* An outcome is a text, None (no text layer) or an exception.             *)

PageText(v) == [k |-> "text", v |-> v]

PageNone == [k |-> "none", v |-> <<>>]

PageRaise == [k |-> "raise", v |-> <<>>]

File(popen, ppages, sopen, spages) ==
    [popen |-> popen, ppages |-> ppages, sopen |-> sopen, spages |-> spages]

\* the pages before the first page that raises
Extracted(pages) ==
    LET bad == {k \in DOMAIN pages : pages[k].k = "raise"}
    IN  IF bad = {} THEN pages
        ELSE SubSeq(pages, 1, (CHOOSE k \in bad : \A m \in bad : k <= m) - 1)

Raises(pages) == \E k \in DOMAIN pages : pages[k].k = "raise"

\* text_chunks.append(p.extract_text() or "") for every page reached
Chunks(pages) == [k \in DOMAIN Extracted(pages) |-> Extracted(pages)[k].v]

\* the first try block: whether it ran to its end, and text_chunks after it
Primary(f) ==
    IF ~f.popen THEN [ok |-> FALSE, text_chunks |-> <<>>]
    ELSE [ok |-> ~Raises(f.ppages), text_chunks |-> Chunks(f.ppages)]

\* the second try block, which appends to the text_chunks the first one left;
\* fitz is None when the import failed, and fitz.open then raises
Secondary(f, fitzOK, text_chunks) ==
    IF ~fitzOK \/ ~f.sopen \/ Raises(f.spages)
    THEN [ok |-> FALSE, text_chunks |-> text_chunks \o Chunks(f.spages)]
    ELSE [ok |-> TRUE, text_chunks |-> text_chunks \o Chunks(f.spages)]

Returned(v) == [raised |-> FALSE, value |-> v]

\* the second try block without its except clause
SecondaryFailed_Uncaught == [raised |-> TRUE, value |-> <<>>]

\* except Exception: return ""
SecondaryFailed == Returned(<<>>)

read_pdf_text(f, fitzOK) ==
    LET p == Primary(f)
        txt == Join(NL, p.text_chunks)
    IN  IF p.ok /\ Strip(txt) # <<>> THEN Returned(txt)
        ELSE LET s == Secondary(f, fitzOK, p.text_chunks)
             IN  IF s.ok THEN Returned(Join(NL, s.text_chunks))
                 ELSE SecondaryFailed

-----------------------------------------------------------------------------
(* The script: the batch loop and what follows it *)

\* Extend as an assignment: all_rows = parse_document(text)
Extend_Overwrite(acc, new) == new

\* all_rows.extend(parse_document(text))
Extend(acc, new) == acc \o new

\* (df[column] == "Yes").sum()
CountYes(rs, column) == Cardinality({k \in DOMAIN rs : rs[k][column] = "Yes"})

NoMetrics == [injured_guess |-> 0, commercial |-> 0, fatal |-> 0]

Metrics(rs) ==
    [injured_guess |-> CountYes(rs, "NotAtFault"),
     commercial |-> CountYes(rs, "CommercialVehicleFlag"),
     fatal |-> CountYes(rs, "FatalFlag")]

\* the state before the script looks at the upload
Fresh(batch, fitzOK) ==
    /\ files = batch
    /\ fitz = fitzOK
    /\ pc = "start"
    /\ i = 0
    /\ text = <<>>
    /\ occupants = <<>>
    /\ charged_hint = <<>>
    /\ commercial = FALSE
    /\ fatal = FALSE
    /\ fields = Fields(<<>>)
    /\ rows = <<>>
    /\ all_rows = <<>>
    /\ metrics = NoMetrics

\* if files: all_rows = []
StartBatch ==
    /\ pc = "start"
    /\ files # <<>>
    /\ pc' = "loop"
    /\ all_rows' = <<>>
    /\ UNCHANGED <<files, fitz, i, text, occupants, charged_hint, commercial,
                   fatal, fields, rows, metrics>>

\* else: the two info boxes
NoFiles ==
    /\ pc = "start"
    /\ files = <<>>
    /\ pc' = "idle"
    /\ UNCHANGED <<files, fitz, i, text, occupants, charged_hint, commercial,
                   fatal, fields, rows, all_rows, metrics>>

\* one turn of "for f in files": read_pdf_text, parse_document, extend;
\* an exception that reached the loop would end the script
ProcessFile ==
    /\ pc = "loop"
    /\ i < Len(files)
    /\ LET r == read_pdf_text(files[i + 1], fitz)
       IN  IF r.raised
           THEN /\ pc' = "crashed"
                /\ UNCHANGED <<i, text, occupants, charged_hint, commercial,
                               fatal, fields, rows, all_rows>>
           ELSE /\ pc' = "loop"
                /\ i' = i + 1
                /\ text' = r.value
                \* parse_document(text), local by local
                /\ fields' = Fields(text')
                /\ occupants' = parse_occupants(text')
                /\ charged_hint' = ChargedHint(text')
                /\ commercial' = flag_commercial(text')
                /\ fatal' = flag_fatal(text')
                /\ rows' = AssembleRows(fields', occupants', charged_hint', commercial', fatal')
                /\ all_rows' = Extend(all_rows, rows')
    /\ UNCHANGED <<files, fitz, metrics>>

\* after the loop: the data frame, the download and the three metrics
Render ==
    /\ pc = "loop"
    /\ i = Len(files)
    /\ pc' = "done"
    /\ metrics' = Metrics(all_rows)
    /\ UNCHANGED <<files, fitz, i, text, occupants, charged_hint, commercial,
                   fatal, fields, rows, all_rows>>

Next == StartBatch \/ NoFiles \/ ProcessFile \/ Render

\* a file of one page whose text both libraries extract
TextFile(t) == File(TRUE, <<PageText(t)>>, TRUE, <<PageText(t)>>)

\* sequences over S of length at most n
SeqsUpTo(S, n) == UNION {[1..m -> S] : m \in 0..n}

-----------------------------------------------------------------------------
(* The batches of the main specification: a few whole documents *)

\* a report with two occupants
DOC2 == <<"1"," ","C","a","s","e"," ","N","u","m","b","e","r","\n","A","B","-","1","2","\n","N","a","m","e","s"," ","&"," ","A","d","d","r","e","s","s","e","s"," ","o","f"," ","O","c","c","u","p","a","n","t","s","\n","J","O","H","N"," ","S","M","I","T","H"," ","1","2","3"," ","M","A","I","N"," ","S","T","\n","J","A","N","E"," ","D","O","E","\n">>

\* a report without the occupants block
DOC0 == <<"1"," ","C","a","s","e"," ","N","u","m","b","e","r","\n","X","-","9","\n","T","R","U","C","K">>

\* a report with one occupant, who is the charged driver
DOC1 == <<"1","3","6"," ","C","h","a","r","g","e","\n","M","A","R","Y"," ","J","O","N","E","S","\n","N","a","m","e","s"," ","&"," ","A","d","d","r","e","s","s","e","s"," ","o","f"," ","O","c","c","u","p","a","n","t","s","\n","M","a","r","y"," ","J","o","n","e","s"," ","4","4"," ","E","L","M","\n">>

\* a file neither library can open
Unreadable == File(FALSE, <<>>, FALSE, <<>>)

\* a scan: pdfplumber finds no text layer on its two pages, PyMuPDF reads them
Scanned == File(TRUE, <<PageNone, PageNone>>, TRUE, <<PageText(DOC1), PageText(DOC0)>>)

FilePool == {TextFile(DOC2), TextFile(DOC0), TextFile(DOC1), Unreadable, Scanned}

MaxBatch == 3

Init ==
    \E batch \in SeqsUpTo(FilePool, MaxBatch), fitzOK \in BOOLEAN : Fresh(batch, fitzOK)

Spec == Init /\ [][Next]_vars

-----------------------------------------------------------------------------
(* The files of SpecRead: every combination of outcomes of the two libraries
   on a file of at most MaxPages pages, alone or followed by a readable file *)

MaxPages == 2

PrimaryOutcomes == {PageText(<<"A">>), PageText(<<" ">>), PageNone, PageRaise}

SecondaryOutcomes == {PageText(<<"B">>), PageRaise}

\* a readable file of one short page
Readable == TextFile(<<"O", "K">>)

\* a file has n pages for both libraries; a library that cannot open it
\* reaches none of them
AllFiles ==
    UNION {{File(po, IF po THEN pp ELSE <<>>, so, IF so THEN sp ELSE <<>>) :
               po \in BOOLEAN, so \in BOOLEAN,
               pp \in [1..n -> PrimaryOutcomes], sp \in [1..n -> SecondaryOutcomes]} :
           n \in 0..MaxPages}

InitRead ==
    \E fitzOK \in BOOLEAN :
        \/ Fresh(<<>>, fitzOK)
        \/ \E f \in AllFiles, rest \in {<<>>, <<Readable>>} : Fresh(<<f>> \o rest, fitzOK)

SpecRead == InitRead /\ [][Next]_vars

\* one document per batch, its text t from set T, or nothing uploaded
InitTexts(T) ==
    \/ Fresh(<<>>, TRUE)
    \/ \E t \in T : Fresh(<<TextFile(t)>>, TRUE)

\* the lines, each ended by a line break
Lines(ls) == IF ls = <<>> THEN <<>> ELSE Join(NL, ls) \o NL

-----------------------------------------------------------------------------
(* The texts of SpecOccupants: an occupants block of up to MaxNames names,
   every DupEvery-th line repeating the first name; and blocks of up to
   MaxLines lines that the cleaning steps treat differently *)

MaxNames == 36

MaxLines == 2

\* the k-th name: "AA Q", "AB Q", ...
NameOf(k) ==
    <<UpperLetters[((k - 1) \div 26) + 1], UpperLetters[((k - 1) % 26) + 1], " ", "Q">>

\* n lines, every d-th of them (d > 0) the first name again
NameLines(n, d) ==
    [k \in 1..n |-> IF d > 0 /\ k % d = 0 THEN NameOf(1) ELSE NameOf(k)]

CapTexts ==
    {OCC_ANCHOR \o NL \o Lines(NameLines(n, d)) : n \in 0..MaxNames, d \in {0, 7}}

LinePool ==
    {<<"M","A","R","Y"," ","S","M","I","T","H","-","J","O","N","E","S"," ","1","2"," ","M","A","I","N">>,
     <<"J","O","H","N"," ","D","O","E"," ","-"," ","S","M","I","T","H">>,
     <<"-","B","O","B"," "," ","L","E","E","-">>,
     <<"A","N","N","-","M","A","R","I","E"," ","O","'","N","E","I","L">>,
     <<"1","2","-","3","4">>,
     <<"I","f"," ","D","e","c","e","a","s","e","d"," ","X"," ","Y">>,
     <<"A","B"," ","C"," ","D"," ","E"," ","F"," ","G">>,
     <<" "," ","J","A","N","E"," ","\t"," ","D","O","E"," ","7"," ","E","L","M"," ","1","2","3">>}

CleanTexts ==
    {head \o Lines(ls) :
        head \in {OCC_ANCHOR \o NL, <<"x"," ">> \o OCC_ANCHOR \o <<" ","o","f"," ","c","a","r"," ","1","\n">>, OCC_HEADER \o NL},
        ls \in SeqsUpTo(LinePool, MaxLines)}

InitOccupants == InitTexts(CapTexts \cup CleanTexts)

SpecOccupants == InitOccupants /\ [][Next]_vars

-----------------------------------------------------------------------------
(* The texts of SpecHint: up to MaxHintLines lines after "136 Charge", then
   an occupants block *)

MaxHintLines == 2

HintPool ==
    {<<"H","E","L","L","O">>, <<"J","O","H","N"," ","S","M","I","T","H">>, <<"M","A","R","Y"," "," ","O","'","N","E","I","L","-","K","A","Y">>, <<"x">>, <<"J","A","N","E"," ","D","O","E">>}

OccupantBlocks ==
    {<<>>,
     OCC_ANCHOR \o <<"\n","J","o","h","n"," ","S","m","i","t","h"," ","1","2"," ","M","A","I","N","\n","J","A","N","E"," ","D","O","E","\n">>,
     OCC_ANCHOR \o <<"\n","M","r"," ","J","o","h","n"," ","S","m","i","t","h"," ","J","r","\n","M","a","r","y"," ","O","'","N","e","i","l"," ","K","a","y","\n">>,
     OCC_ANCHOR \o <<"\n","M","A","R","Y"," ","O","'","N","E","I","L","-","K","A","Y","\n","S","M","I","T","H"," ","J","O","H","N","\n">>}

HintTexts ==
    {head \o Lines(ls) \o block :
        head \in {CHARGE_ANCHOR \o NL, <<"J","O","H","N"," ","S","M","I","T","H","\n">> \o CHARGE_ANCHOR \o NL, <<"\n","J","A","N","E"," ","D","O","E","\n","1","3","5"," ","C","h","a","r","g","e","\n">>},
        ls \in SeqsUpTo(HintPool, MaxHintLines),
        block \in OccupantBlocks}

InitHint == InitTexts(HintTexts)

SpecHint == InitHint /\ [][Next]_vars

-----------------------------------------------------------------------------
(* The texts of SpecFatal: the parts of "8 Total Killed <n>" with what may
   stand before, between and after them *)

FatalTexts ==
    {pre \o eight \o w1 \o <<"T","o","t","a","l">> \o w2 \o <<"K","i","l","l","e","d">> \o w3 \o tail :
        pre \in {<<>>, <<"1">>, <<"x"," ">>, <<"T","o","t","a","l"," ","K","i","l","l","e","d","\n">>},
        eight \in {<<"8">>, <<>>},
        w1 \in {<<>>, <<" ">>, <<"\n">>},
        w2 \in {<<>>, <<" ">>, <<"\n">>},
        w3 \in {<<>>, <<" ">>, <<" ","\n","\n">>},
        tail \in {<<>>, <<"2">>, <<"0">>, <<"1","2">>}}

InitFatal == InitTexts(FatalTexts)

SpecFatal == InitFatal /\ [][Next]_vars

-----------------------------------------------------------------------------
(* The texts of SpecCommercial: every keyword in upper case, in lower case,
   capitalized and with its first character missing, inside other text,
   with and without an occupants block *)

Lower(s) == [k \in DOMAIN s |-> LowerChar(s[k])]

Capitalized(s) == <<s[1]>> \o Lower(Tail(s))

KeywordForms ==
    UNION {{keys[k], Lower(keys[k]), Capitalized(keys[k]), Tail(keys[k])} : k \in DOMAIN keys}

CommercialTexts ==
    {pre \o form \o post \o block :
        pre \in {<<>>, <<"x">>, <<"r","e"," ","\n">>},
        form \in KeywordForms \cup {<<>>},
        post \in {<<>>, <<"s">>},
        block \in {<<>>, <<"\n">> \o OCC_ANCHOR \o <<"\n","J","O","H","N"," ","S","M","I","T","H","\n","J","A","N","E"," ","D","O","E","\n">>}}

InitCommercial == InitTexts(CommercialTexts)

SpecCommercial == InitCommercial /\ [][Next]_vars

-----------------------------------------------------------------------------
(* Claims *)

\* a document has just been parsed: text, the locals and rows are those of files[i]
Parsed == pc = "loop" /\ i >= 1

\* hint occurs in name when upper and lower case are not told apart
ContainsIgnoringCase(name, hint) ==
    \E k \in 0..(Len(name) - Len(hint)) :
        \A j \in 1..Len(hint) : LowerChar(name[k + j]) = LowerChar(hint[j])

\* C1: parse_document returns one row per parsed occupant, in the order of the
\* occupant list and with the occupant's name; when the list is empty (as it
\* is whenever the text lacks "Names & Addresses of Occupants") it returns one
\* row named "(no occupants parsed)" whose NotAtFault is empty; the number of
\* rows is max(1, number of occupants).
C1_OneRowPerOccupant ==
    Parsed =>
        /\ Len(rows) = (IF Len(occupants) >= 1 THEN Len(occupants) ELSE 1)
        /\ \A k \in DOMAIN occupants : rows[k].Name = occupants[k].name
        /\ occupants = <<>> =>
              rows[1].Name = PLACEHOLDER /\ rows[1].NotAtFault = ""
        /\ ~Contains(text, OCC_ANCHOR) => occupants = <<>>

\* C1's cases: a text without the anchor gave the placeholder row, or a text
\* with several occupants gave as many rows
C1_Witness ==
    /\ Parsed
    /\ Contains(text, OCC_HEADER)
    /\ ~Contains(text, OCC_ANCHOR)
    /\ Len(text) > Len(OCC_HEADER) + 1
    /\ Len(rows) = 1
    /\ rows[1].Name = PLACEHOLDER

\* the candidate names of the text's block, before deduplication
CandidateNames ==
    LET a == Find(text, OCC_ANCHOR)
        c == IF a = 0 THEN <<>>
             ELSE Candidates(BlockLines(Slice(text, a, a + BlockWindow - 1)))
    IN  [k \in DOMAIN c |-> c[k].name]

FirstIndex(names, n) == CHOOSE k \in DOMAIN names : names[k] = n /\ \A m \in 1..(k - 1) : names[m] # n

\* C3: parse_occupants returns at most 30 entries, no two with the same name,
\* in the order of their first occurrence, and the cap keeps the first 30
\* distinct names (duplicates are removed before the cap applies).
C3_DistinctCappedInOrder ==
    Parsed =>
        LET names == CandidateNames
            occ == [k \in DOMAIN occupants |-> occupants[k].name]
            distinct == {names[k] : k \in DOMAIN names}
        IN  /\ Len(occ) <= 30
            /\ \A j, k \in DOMAIN occ : j < k => occ[j] # occ[k]
            /\ \A k \in DOMAIN occ : occ[k] \in distinct
            /\ \A j, k \in DOMAIN occ :
                  j < k => FirstIndex(names, occ[j]) < FirstIndex(names, occ[k])
            /\ Len(occ) = (IF Cardinality(distinct) <= 30 THEN Cardinality(distinct) ELSE 30)
            /\ \A n \in distinct :
                  n \notin Range(occ) =>
                      \A k \in DOMAIN occ : FirstIndex(names, occ[k]) < FirstIndex(names, n)

\* C3's case: more than 30 distinct names with a repeated one among them, 30 kept
C3_Witness ==
    /\ Parsed
    /\ Len(occupants) = 30
    /\ Cardinality(Range(CandidateNames)) > 30
    /\ Len(CandidateNames) > Cardinality(Range(CandidateNames))

\* a hyphen of l that stands directly between two letters
InnerHyphens(l) ==
    {k \in 2..(Len(l) - 1) :
        l[k] = "-" /\ l[k - 1] \in AZ \cup az /\ l[k + 1] \in AZ \cup az}

\* the lines of the text's block that the loop keeps
KeptLines ==
    LET a == Find(text, OCC_ANCHOR)
        ls == IF a = 0 THEN <<>> ELSE BlockLines(Slice(text, a, a + BlockWindow - 1))
    IN  {ls[k] : k \in {m \in DOMAIN ls : Kept(ls[m])}}

\* C10: cleaning a kept line replaces only an isolated hyphen (one surrounded
\* by whitespace) by a space; a hyphen directly between two letters stays in
\* the candidate name and does not split it into two tokens; whitespace runs
\* become one space, spaces and hyphens at the ends are trimmed, and every
\* accepted candidate has 2 to 5 tokens.
C10_InnerHyphenKept ==
    Parsed =>
        /\ \A l \in KeptLines :
              /\ InnerHyphens(l) # {} => Contains(Clean(l), <<"-">>)
              /\ InnerHyphens(l) = {k \in DOMAIN l : l[k] = "-"} =>
                    Len(Split(Clean(l))) = Len(Split(l))
              /\ ~Contains(Clean(l), <<" ", " ">>)
              /\ Clean(l) = StripChars(Clean(l), {" ", "-"})
        /\ \A k \in DOMAIN occupants :
              Len(Split(occupants[k].name)) \in 2..5

\* the text read_pdf_text returns for the k-th file of the batch
TextOf(k) == read_pdf_text(files[k], fitz).value

\* the rows of files[1..n], each parsed alone, one file after the other
RECURSIVE RowsOfFirst(_)
RowsOfFirst(n) ==
    IF n = 0 THEN <<>> ELSE RowsOfFirst(n - 1) \o parse_document(TextOf(n))

\* the number of occupants of the k-th file
OccupantsOf(k) == Len(parse_occupants(TextOf(k)))

\* C2: the accumulated rows are the concatenation, in upload order, of the rows
\* each document yields when parsed alone; the count is the sum of the
\* documents' counts, whatever the other documents of the batch are.
C2_BatchIsConcatenation ==
    pc \in {"loop", "done"} =>
        /\ all_rows = RowsOfFirst(i)
        /\ pc = "done" => i = Len(files)

\* C2's case: documents of 2, 0 and 1 occupants gave 2+1+1 = 4 rows
C2_Witness ==
    /\ pc = "done"
    /\ Len(files) = 3
    /\ <<OccupantsOf(1), OccupantsOf(2), OccupantsOf(3)>> = <<2, 0, 1>>
    /\ Len(all_rows) = 4

\* the first extraction gives no usable text: it raises, or what it extracts
\* is empty or whitespace
PrimaryUnusable(f) ==
    \/ ~f.popen
    \/ \E k \in DOMAIN f.ppages : f.ppages[k].k = "raise"
    \/ \A k \in DOMAIN f.ppages : Range(f.ppages[k].v) \subseteq Space

\* the second extraction raises or its library is missing
SecondaryUnusable(f) ==
    \/ ~fitz
    \/ ~f.sopen
    \/ \E k \in DOMAIN f.spages : f.spages[k].k = "raise"

EmptyRow ==
    [CaseNumber |-> <<>>, PoliceDept |-> <<>>, DateOfCrash |-> <<>>,
     Name |-> PLACEHOLDER, NotAtFault |-> "",
     CommercialVehicleFlag |-> "No", FatalFlag |-> "No"]

\* C7: read_pdf_text never raises, whatever the two extractions do; it returns
\* "" when the first gives no usable text or raises and the second raises or
\* is missing; parse_document then gives one placeholder row with empty Case
\* Number, Police Dept and Date of Crash, and the batch goes on.
C7_NeverRaises ==
    /\ pc # "crashed"
    /\ \A k \in DOMAIN files : ~read_pdf_text(files[k], fitz).raised
    /\ pc \in {"loop", "done"} /\ i >= 1 =>
          /\ PrimaryUnusable(files[i]) /\ SecondaryUnusable(files[i]) =>
                text = <<>> /\ rows = <<EmptyRow>>
          /\ Len(all_rows) >= i
    /\ pc = "done" => i = Len(files)

\* C7's case: the first file raised in both extractions (one after a page was
\* read), and the file after it was still parsed
C7_Witness ==
    /\ pc = "done"
    /\ Len(files) = 2
    /\ files[1].popen /\ Len(files[1].ppages) = 2
    /\ files[1].ppages[1].k = "text" /\ files[1].ppages[2].k = "raise"
    /\ fitz /\ files[1].sopen /\ Len(files[1].spages) = 2
    /\ files[1].spages[1].k = "text" /\ files[1].spages[2].k = "raise"
    /\ all_rows[1] = EmptyRow
    /\ Len(all_rows) = 2
    /\ text = <<"O", "K">>

\* the page texts of one extraction, joined by newlines
PagesJoined(pages) == Join(NL, [k \in DOMAIN pages |-> pages[k].v])

\* C8: the text returned is the newline-joined page texts of one extraction
\* method, each page once; when the second method is used after the first
\* gave whitespace or raised part-way, it is exactly the second method's page
\* texts joined by newlines, with nothing of the first left.
C8_OneMethodOnly ==
    pc \in {"loop", "done"} /\ i >= 1 =>
        /\ text \in {PagesJoined(files[i].ppages), PagesJoined(files[i].spages), <<>>}
        /\ PrimaryUnusable(files[i]) /\ ~SecondaryUnusable(files[i]) =>
              text = PagesJoined(files[i].spages)

\* C4: an occupant row is labelled "No" if and only if a charged-driver hint
\* was found and occurs in the occupant's name, case ignored; every other
\* occupant row is labelled "Yes", and without a hint all of them are.
C4_NotAtFaultLabel ==
    Parsed =>
        \A k \in DOMAIN occupants :
            /\ rows[k].NotAtFault \in {"Yes", "No"}
            /\ rows[k].NotAtFault = "No" <=>
                  /\ find_charged_driver_hint(text).found
                  /\ ContainsIgnoringCase(occupants[k].name, find_charged_driver_hint(text).cand)
            /\ ~find_charged_driver_hint(text).found => rows[k].NotAtFault = "Yes"

\* C4's case: a hint in upper case labelled an occupant written in mixed case
\* "No" and the other occupant "Yes"
C4_Witness ==
    /\ Parsed
    /\ Len(rows) = 2
    /\ rows[1].NotAtFault = "No"
    /\ rows[1].Name # Upper(rows[1].Name)
    /\ rows[2].NotAtFault = "Yes"

\* the lines of the window around "136 Charge" that have a newline on both sides
WindowLines ==
    LET ps == Pieces(Snippet(text), {"\n"})
    IN  IF Len(ps) <= 2 THEN <<>> ELSE SubSeq(ps, 2, Len(ps) - 1)

\* a line of 5 to 60 upper-case letters, spaces, hyphens and apostrophes
\* that has 2 to 5 words
QualifyingLine(l) ==
    /\ Len(l) \in 5..60
    /\ \A k \in DOMAIN l : l[k] \in AZ \cup {" ", "-", "'"}
    /\ Len(Split(l)) \in 2..5

\* C9: with "136 Charge" in the text, find_charged_driver_hint returns the
\* first line of the window (in text order) that qualifies, whatever lines
\* precede it, and nothing only when no line qualifies or the anchor is absent.
C9_FirstQualifyingLine ==
    Parsed =>
        LET ls == WindowLines
            good == {k \in DOMAIN ls : QualifyingLine(ls[k])}
        IN  IF ~Contains(text, CHARGE_ANCHOR) \/ good = {}
            THEN charged_hint = <<>>
            ELSE charged_hint =
                    Join(SP, Split(ls[CHOOSE k \in good : \A m \in good : k <= m]))

\* positions from..to - 1 of s hold whitespace only
Blank(s, from, to) == \A k \in from..(to - 1) : s[k] \in Space

\* sub stands in s at position p
At(s, p, sub) == p + Len(sub) - 1 <= Len(s) /\ SubSeq(s, p, p + Len(sub) - 1) = sub

\* "8 Total Killed", then optional whitespace, then a digit 1-9
LiteralThenDigit(s) ==
    \E p \in DOMAIN s :
        /\ At(s, p, <<"8"," ","T","o","t","a","l"," ","K","i","l","l","e","d">>)
        /\ \E d \in (p + 14)..Len(s) : Blank(s, p + 14, d) /\ s[d] \in Digits \ {"0"}

\* an "8" that follows no letter, digit or underscore, then "Total", "Killed"
\* and a digit 1-9, each after optional whitespace
FieldThenDigit(s) ==
    \E p \in DOMAIN s :
        /\ s[p] = "8"
        /\ p = 1 \/ s[p - 1] \notin WordChars
        /\ \E a \in (p + 1)..Len(s), b \in (p + 6)..Len(s), d \in (p + 12)..Len(s) :
              /\ Blank(s, p + 1, a) /\ At(s, a, <<"T","o","t","a","l">>)
              /\ Blank(s, a + 5, b) /\ At(s, b, <<"K","i","l","l","e","d">>)
              /\ Blank(s, b + 6, d) /\ s[d] \in Digits \ {"0"}

\* C5 as claimed: FatalFlag is "Yes" exactly when the text contains
\* "Total Killed" and contains "8 Total Killed" followed, after optional
\* whitespace, by a digit 1-9; otherwise it is "No".
C5_FatalFlagLiteral ==
    Parsed =>
        \A k \in DOMAIN rows :
            rows[k].FatalFlag =
                (IF Contains(text, TOTAL_KILLED) /\ LiteralThenDigit(text) THEN "Yes" ELSE "No")

\* C5 as amended: FatalFlag is "Yes" exactly when the text contains
\* "Total Killed" and also an "8" not directly after a letter, digit or
\* underscore, followed by "Total", "Killed" and a digit 1-9 with optional
\* whitespace before each of the three; a text with one of the two only, or
\* neither, gets "No".
C5_FatalFlag ==
    Parsed =>
        \A k \in DOMAIN rows :
            rows[k].FatalFlag =
                (IF Contains(text, TOTAL_KILLED) /\ FieldThenDigit(text) THEN "Yes" ELSE "No")

\* C5's case: the field pattern is there, split over two lines, but not the
\* literal "Total Killed", and the flag is "No"
C5_Witness ==
    /\ Parsed
    /\ FieldThenDigit(text)
    /\ ~Contains(text, TOTAL_KILLED)
    /\ rows[1].FatalFlag = "No"

\* the eight keywords of the claim
ClaimedKeywords ==
    {<<"U","S","D","O","T">>, <<"T","R","U","C","K">>, <<"C","A","R","R","I","E","R">>, <<"G","V","W","R">>, <<"P","E","N","S","K","E">>, <<"F","R","E","I","G","H","T">>, <<"M","C","/","M","X">>,
     <<"W","E","I","G","H","T"," ",">","="," ","2","6",",","0","0","1">>}

\* C6: every row of a document, occupant row or placeholder, has
\* CommercialVehicleFlag "Yes" if and only if one of the eight keywords occurs
\* in the text, case ignored; otherwise every row has "No".
C6_CommercialFlag ==
    Parsed =>
        \A k \in DOMAIN rows :
            rows[k].CommercialVehicleFlag =
                (IF \E key \in ClaimedKeywords : ContainsIgnoringCase(text, key)
                 THEN "Yes" ELSE "No")

\* C6's case: a keyword in lower case only, and both occupant rows flagged
C6_Witness ==
    /\ Parsed
    /\ Len(occupants) = 2
    /\ \A key \in ClaimedKeywords : ~Contains(text, key)
    /\ \A k \in DOMAIN rows : rows[k].CommercialVehicleFlag = "Yes"

=============================================================================
